---- MODULE Spec2Model ----
(***************************************************************************)
(* Bitboard Othello engine (src/src/othello.rs).                           *)
(*                                                                         *)
(* A BitBoard is a 64-bit word.  It is represented here by the set of the  *)
(* indices (0..63) of its set bits: & is \cap, | is \cup, ^ is symmetric   *)
(* difference, ! is complement in 0..63, and a shift moves every index and *)
(* drops the indices that leave 0..63 (zero fill, no rotation).            *)
(***************************************************************************)
EXTENDS Integers, FiniteSets, Sequences, TLC

VARIABLES white, black, color, ply, op, mv, moves, res, iters, depth, count

vars == <<white, black, color, ply, op, mv, moves, res, iters, depth, count>>

(***************************************************************************)
(* Bounds of the model.                                                    *)
(***************************************************************************)
MaxRun == 7      \* longest run laid down in a generated board
GamePlies == 3   \* plies of the game whose boards are given to the pure calls
MaxPly == 9      \* plies played from the starting position
PerftDepth == 6  \* deepest perft called on the starting position
NodeDepth == 2   \* deepest perft called on a position without a move
LoopCap == 9     \* iterations after which the model stops following a loop

\* a caller of the game picks one of the three lowest bits of gen_moves: the
\* ranks (number of lower bits in the mask) it may pick
PickRanks == 0..2

Bits == 0..63

(***************************************************************************)
(* BitBoard primitives                                                     *)
(***************************************************************************)
wrapping_shl(x, n) == {i + n : i \in {j \in x : j + n <= 63}}

wrapping_shr(x, n) == {i - n : i \in {j \in x : j >= n}}

BitXor(a, b) == (a \ b) \cup (b \ a)

BitNot(a) == Bits \ a

\* 0xFEFEFEFEFEFEFEFE: every bit but bit 0 of each byte
MASK_FE == {i \in Bits : i % 8 # 0}

\* 0x7F7F7F7F7F7F7F7F: every bit but bit 7 of each byte
MASK_7F == {i \in Bits : i % 8 # 7}

north_east(x) == wrapping_shl(x \cap MASK_FE, 7)

north(x) == wrapping_shl(x, 8)

north_west(x) == wrapping_shl(x \cap MASK_7F, 9)

west(x) == wrapping_shl(x \cap MASK_7F, 1)

\* east! without the mask of the edge file
east_nomask(x) == wrapping_shr(x, 1)

east(x) == wrapping_shr(x \cap MASK_FE, 1)

south_west(x) == wrapping_shr(x \cap MASK_7F, 7)

south(x) == wrapping_shr(x, 8)

south_east(x) == wrapping_shr(x \cap MASK_FE, 9)

\* the order in which gen_moves and make_move go through the directions
Dirs == <<"north_east", "north", "north_west", "west",
          "east", "south_west", "south", "south_east">>

\* $dir!(x) of the macros search_in_direction! and change_in_direction!
Shift(dir, x) ==
    CASE dir = "north_east" -> north_east(x)
      [] dir = "north"      -> north(x)
      [] dir = "north_west" -> north_west(x)
      [] dir = "west"       -> west(x)
      [] dir = "east"       -> east(x)
      [] dir = "south_west" -> south_west(x)
      [] dir = "south"      -> south(x)
      [] dir = "south_east" -> south_east(x)

(***************************************************************************)
(* Color and Othello                                                       *)
(***************************************************************************)
Colors == {"White", "Black"}

invert(c) == IF c = "White" THEN "Black" ELSE "White"

\* Othello::new(): Othello(0x0000001008000000, 0x0000000810000000)
NewWhite == {27, 36}

NewBlack == {28, 35}

get_bitboard(w, b, c) == IF c = "White" THEN w ELSE b

\* t |= opp & $dir!(t)
extend(dir, opp, t) == t \cup (opp \cap Shift(dir, t))

\* search_in_direction! with one extension step less
search_in_direction_short(dir, own, opp) ==
    LET t0 == opp \cap Shift(dir, own)
        t1 == extend(dir, opp, t0)
        t2 == extend(dir, opp, t1)
        t3 == extend(dir, opp, t2)
        t4 == extend(dir, opp, t3)
    IN  Shift(dir, t4)

\* search_in_direction! whose first step forgets `opp &`
search_in_direction_noopp(dir, own, opp) ==
    LET t0 == Shift(dir, own)
        t1 == extend(dir, opp, t0)
        t2 == extend(dir, opp, t1)
        t3 == extend(dir, opp, t2)
        t4 == extend(dir, opp, t3)
        t5 == extend(dir, opp, t4)
    IN  Shift(dir, t5)

search_in_direction(dir, own, opp) ==
    LET t0 == opp \cap Shift(dir, own)
        t1 == extend(dir, opp, t0)
        t2 == extend(dir, opp, t1)
        t3 == extend(dir, opp, t2)
        t4 == extend(dir, opp, t3)
        t5 == extend(dir, opp, t4)
    IN  Shift(dir, t5)

\* gen_moves without the final `moves &= !(own | opp)`
gen_moves_nomask(w, b, playing) ==
    LET own == get_bitboard(w, b, playing)
        opp == get_bitboard(w, b, invert(playing))
    IN  UNION {search_in_direction(Dirs[k], own, opp) : k \in 1..Len(Dirs)}

gen_moves(w, b, playing) ==
    LET own == get_bitboard(w, b, playing)
        opp == get_bitboard(w, b, invert(playing))
        found == UNION {search_in_direction(Dirs[k], own, opp) : k \in 1..Len(Dirs)}
    IN  found \cap BitNot(own \cup opp)

\* the loop with `c = opp & c`: the candidate set is never shifted
RECURSIVE run_loop_noshift(_, _, _, _, _)
run_loop_noshift(dir, opp, c, t, n) ==
    IF n >= LoopCap THEN [t |-> t, n |-> n]
    ELSE LET c2 == opp \cap c
         IN  IF c2 = {} THEN [t |-> t, n |-> n + 1]
             ELSE run_loop_noshift(dir, opp, c2, t \cup c2, n + 1)

\* the `loop` of change_in_direction!: c is the last extension, t the run
\* collected so far, n the number of iterations begun so far
RECURSIVE run_loop(_, _, _, _, _)
run_loop(dir, opp, c, t, n) ==
    IF n >= LoopCap THEN [t |-> t, n |-> n]
    ELSE LET c2 == opp \cap Shift(dir, c)
         IN  IF c2 = {} THEN [t |-> t, n |-> n + 1]
             ELSE run_loop(dir, opp, c2, t \cup c2, n + 1)

\* change_in_direction! that flips the run without testing what follows it
change_in_direction_nobracket(dir, m, own, opp) ==
    LET c == opp \cap Shift(dir, m)
    IN  IF c # {}
        THEN LET r == run_loop(dir, opp, c, c, 0)
             IN  IF TRUE
                 THEN [own |-> BitXor(own, r.t), opp |-> BitXor(opp, r.t),
                       n |-> r.n, flip |-> r.t]
                 ELSE [own |-> own, opp |-> opp, n |-> r.n, flip |-> {}]
        ELSE [own |-> own, opp |-> opp, n |-> 0, flip |-> {}]

\* change_in_direction! that tests `$dir!(t) != 0`, not `$dir!(t) & own != 0`
change_in_direction_anyend(dir, m, own, opp) ==
    LET c == opp \cap Shift(dir, m)
    IN  IF c # {}
        THEN LET r == run_loop(dir, opp, c, c, 0)
             IN  IF Shift(dir, r.t) # {}
                 THEN [own |-> BitXor(own, r.t), opp |-> BitXor(opp, r.t),
                       n |-> r.n, flip |-> r.t]
                 ELSE [own |-> own, opp |-> opp, n |-> r.n, flip |-> {}]
        ELSE [own |-> own, opp |-> opp, n |-> 0, flip |-> {}]

\* change_in_direction! without `opp ^= t`
change_in_direction_keepopp(dir, m, own, opp) ==
    LET c == opp \cap Shift(dir, m)
    IN  IF c # {}
        THEN LET r == run_loop(dir, opp, c, c, 0)
             IN  IF Shift(dir, r.t) \cap own # {}
                 THEN [own |-> BitXor(own, r.t), opp |-> opp,
                       n |-> r.n, flip |-> r.t]
                 ELSE [own |-> own, opp |-> opp, n |-> r.n, flip |-> {}]
        ELSE [own |-> own, opp |-> opp, n |-> 0, flip |-> {}]

\* change_in_direction! without `own ^= t`
change_in_direction_keepown(dir, m, own, opp) ==
    LET c == opp \cap Shift(dir, m)
    IN  IF c # {}
        THEN LET r == run_loop(dir, opp, c, c, 0)
             IN  IF Shift(dir, r.t) \cap own # {}
                 THEN [own |-> own, opp |-> BitXor(opp, r.t),
                       n |-> r.n, flip |-> r.t]
                 ELSE [own |-> own, opp |-> opp, n |-> r.n, flip |-> {}]
        ELSE [own |-> own, opp |-> opp, n |-> 0, flip |-> {}]

change_in_direction(dir, m, own, opp) ==
    LET c == opp \cap Shift(dir, m)
    IN  IF c # {}
        THEN LET r == run_loop(dir, opp, c, c, 0)
             IN  IF Shift(dir, r.t) \cap own # {}
                 THEN [own |-> BitXor(own, r.t), opp |-> BitXor(opp, r.t),
                       n |-> r.n, flip |-> r.t]
                 ELSE [own |-> own, opp |-> opp, n |-> r.n, flip |-> {}]
        ELSE [own |-> own, opp |-> opp, n |-> 0, flip |-> {}]

\* the eight change_in_direction! of make_move, in order, from direction k on;
\* n is the largest iteration count of a loop so far, flips the runs flipped
RECURSIVE change_from(_, _, _, _, _, _)
change_from(k, m, own, opp, n, flips) ==
    IF k > Len(Dirs) THEN [own |-> own, opp |-> opp, n |-> n, flips |-> flips]
    ELSE LET r == change_in_direction(Dirs[k], m, own, opp)
         IN  change_from(k + 1, m, r.own, r.opp,
                         IF r.n > n THEN r.n ELSE n, Append(flips, r.flip))

make_move(w, b, playing, m) ==
    LET own0 == get_bitboard(w, b, playing) \cup m
        opp0 == get_bitboard(w, b, invert(playing))
        r == change_from(1, m, own0, opp0, 0, <<>>)
    IN  IF playing = "White"
        THEN [white |-> r.own, black |-> r.opp, iters |-> r.n, flips |-> r.flips]
        ELSE [white |-> r.opp, black |-> r.own, iters |-> r.n, flips |-> r.flips]

(***************************************************************************)
(* perft of test_othello                                                   *)
(***************************************************************************)
\* BitBoard::pop_lsb: the lowest set bit, which the caller then clears
pop_lsb(x) == CHOOSE m \in x : \A y \in x : m <= y

perft_table == <<1, 4, 12, 56, 244, 1396, 8200,
                 55092, 390216, 3005288, 24571284,
                 212258800, 1939886636>>

RECURSIVE perft(_, _, _, _)
RECURSIVE perft_while(_, _, _, _, _, _)
\* perft whose pass recurses with `depth` instead of `depth-1`
perft_pass_same_depth(w, b, c, d) ==
    IF d = 0 THEN 1
    ELSE LET ms == gen_moves(w, b, c)
         IN  IF ms = {}
             THEN IF gen_moves(w, b, invert(c)) = {} THEN 1
                  ELSE perft(w, b, invert(c), d)
             ELSE perft_while(w, b, c, d, ms, 0)

perft(w, b, c, d) ==
    IF d = 0 THEN 1
    ELSE LET ms == gen_moves(w, b, c)
         IN  IF ms = {}
             THEN IF gen_moves(w, b, invert(c)) = {} THEN 1
                  ELSE perft(w, b, invert(c), d - 1)
             ELSE perft_while(w, b, c, d, ms, 0)

\* the `while moves != 0` loop of perft, with the moves left and the sum so far
perft_while(w, b, c, d, ms, sum) ==
    IF ms = {} THEN sum
    ELSE LET m == pop_lsb(ms)
             o == make_move(w, b, c, {m})
         IN  perft_while(w, b, c, d, ms \ {m},
                         sum + perft(o.white, o.black, invert(c), d - 1))

(***************************************************************************)
(* Spec: a game played from Othello::new() the way perft walks it.  The    *)
(* caller holds a board and the side to move, asks gen_moves, applies one  *)
(* of its bits with make_move, and passes when the side to move has no     *)
(* move.  perft is called on the starting position and on the positions    *)
(* where the side to move has no move.                                     *)
(***************************************************************************)
NoBoard == [white |-> {}, black |-> {}, iters |-> 0, flips |-> <<>>]

Init ==
    /\ white = NewWhite
    /\ black = NewBlack
    /\ color = "Black"
    /\ ply = 0
    /\ op = "new"
    /\ mv = {}
    /\ moves = {}
    /\ res = NoBoard
    /\ iters = 0
    /\ depth = 0
    /\ count = 0

\* the bits of the mask a caller may pick
Choices(ms) == {m \in ms : Cardinality({x \in ms : x < m}) \in PickRanks}

\* make_move(color, m) for a bit m of the mask ms that gen_moves returned
Play(ms, m) ==
    /\ ply < MaxPly
    /\ \E r \in {make_move(white, black, color, {m})} :
          /\ white' = r.white
          /\ black' = r.black
          /\ res' = r
          /\ iters' = r.iters
    /\ moves' = ms
    /\ mv' = {m}
    /\ color' = invert(color)
    /\ ply' = ply + 1
    /\ op' = "make_move"
    /\ depth' = 0
    /\ count' = 0

Pass ==
    /\ ply < MaxPly
    /\ gen_moves(white, black, color) = {}
    /\ gen_moves(white, black, invert(color)) # {}
    /\ color' = invert(color)
    /\ ply' = ply + 1
    /\ op' = "pass"
    /\ moves' = {}
    /\ mv' = {}
    /\ res' = NoBoard
    /\ iters' = 0
    /\ depth' = 0
    /\ count' = 0
    /\ UNCHANGED <<white, black>>

\* test_othello: perft(Othello::new(), Color::Black, depth)
TestOthello(d) ==
    /\ ply = 0
    /\ depth' = d
    /\ count' = perft(white, black, color, d)
    /\ op' = "perft"
    /\ UNCHANGED <<white, black, color, ply, mv, moves, res, iters>>

\* perft reaching a position where the side to move has no move
PerftNoMove(d) ==
    /\ ply > 0
    /\ gen_moves(white, black, color) = {}
    /\ depth' = d
    /\ count' = perft(white, black, color, d)
    /\ op' = "perft"
    /\ moves' = {}
    /\ UNCHANGED <<white, black, color, ply, mv, res, iters>>

Next ==
    \/ \E ms \in {gen_moves(white, black, color)} : \E m \in Choices(ms) : Play(ms, m)
    \/ Pass
    \/ \E d \in 1..PerftDepth : TestOthello(d)
    \/ \E d \in 1..NodeDepth : PerftNoMove(d)

Spec == Init /\ [][Next]_vars

(***************************************************************************)
(* SpecFn: gen_moves and make_move as pure functions, called once on a     *)
(* board drawn from a bounded family with a color and a move argument.     *)
(***************************************************************************)
Anchors == {0, 7, 18}

Strides == {1, 7, 8, 9}

\* a ray of n + 2 bit indices a, a + s, ..., a + (n + 1) * s; with stride 1, 7
\* or 9 it may run from one edge file onto the other
Rays == {r \in Anchors \X Strides \X (0..MaxRun) : r[1] + (r[3] + 1) * r[2] <= 63}

\* the n inner bits of the ray hold color run; each end is empty ("E") or
\* holds the other color ("O")
RayBoard(r, run, h, t) ==
    LET inner == {r[1] + k * r[2] : k \in 1..r[3]}
        ends == (IF h = "O" THEN {r[1]} ELSE {})
                \cup (IF t = "O" THEN {r[1] + (r[3] + 1) * r[2]} ELSE {})
    IN  IF run = "White" THEN <<inner, ends>> ELSE <<ends, inner>>

RayBoards == {RayBoard(r, run, h, t) : r \in Rays, run \in Colors,
                                       h \in {"E", "O"}, t \in {"E", "O"}}

\* the positions after one more ply of the game from position p
Successors(p) ==
    LET ms == gen_moves(p[1], p[2], p[3])
    IN  IF ms = {}
        THEN IF gen_moves(p[1], p[2], invert(p[3])) = {} THEN {}
             ELSE {<<p[1], p[2], invert(p[3])>>}
        ELSE {<<make_move(p[1], p[2], p[3], {m}).white,
                make_move(p[1], p[2], p[3], {m}).black, invert(p[3])>> : m \in ms}

RECURSIVE Positions(_)
Positions(k) ==
    IF k = 0 THEN {<<NewWhite, NewBlack, "Black">>}
    ELSE UNION {Successors(p) : p \in Positions(k - 1)}

GameBoards == {<<p[1], p[2]>> : p \in UNION {Positions(k) : k \in 0..GamePlies}}

\* boards on which a square holds both colors
OverlapBoards == {<<Bits, Bits>>, <<NewWhite \cup NewBlack, NewBlack>>,
                  <<0..7, 1..6>>, <<{9, 18, 27}, {18, 27, 36}>>}

Boards == RayBoards \cup GameBoards \cup OverlapBoards

\* move arguments: every single bit, zero and some masks of several bits
MoveArgs == {{i} : i \in Bits} \cup {{}, Bits, 0..7, {0, 63}, {18, 27}}

InitFn ==
    /\ \E bd \in Boards : white = bd[1] /\ black = bd[2]
    /\ color \in Colors
    /\ ply = 0
    /\ op = "board"
    /\ mv = {}
    /\ moves = {}
    /\ res = NoBoard
    /\ iters = 0
    /\ depth = 0
    /\ count = 0

CallGenMoves ==
    /\ op = "board"
    /\ moves' = gen_moves(white, black, color)
    /\ op' = "gen_moves"
    /\ UNCHANGED <<white, black, color, ply, mv, res, iters, depth, count>>

CallMakeMove(m) ==
    /\ op = "board"
    /\ \E r \in {make_move(white, black, color, m)} :
          /\ res' = r
          /\ iters' = r.iters
    /\ mv' = m
    /\ op' = "make_move"
    /\ UNCHANGED <<white, black, color, ply, moves, depth, count>>

NextFn ==
    \/ CallGenMoves
    \/ \E m \in MoveArgs : CallMakeMove(m)

SpecFn == InitFn /\ [][NextFn]_vars

(***************************************************************************)
(* The rules of Othello on the 8x8 board, by file and rank.  Bit i is the  *)
(* square of file X(i) and rank Y(i).                                      *)
(***************************************************************************)
X(i) == i % 8

Y(i) == i \div 8

\* the 8 compass steps <<dx, dy>>
Steps == {d \in (-1..1) \X (-1..1) : d # <<0, 0>>}

\* the step of each shift macro, in the order of Dirs
DirStep == <<<<-1, 1>>, <<0, 1>>, <<1, 1>>, <<1, 0>>,
             <<-1, 0>>, <<1, -1>>, <<0, -1>>, <<-1, -1>>>>

\* k steps d away from square i there is a square of the board
Inside(i, d, k) == X(i) + k * d[1] \in 0..7 /\ Y(i) + k * d[2] \in 0..7

At(i, d, k) == (Y(i) + k * d[2]) * 8 + X(i) + k * d[1]

\* the length of the contiguous run of opp disks that starts next to i
RunLen(i, d, opp) ==
    Cardinality({n \in 1..7 : \A k \in 1..n : Inside(i, d, k) /\ At(i, d, k) \in opp})

RunOf(i, d, opp) == {At(i, d, k) : k \in 1..RunLen(i, d, opp)}

\* the run next to i is not empty and a disk of own follows it on the board
Bracketed(i, d, own, opp) ==
    LET n == RunLen(i, d, opp)
    IN  n >= 1 /\ Inside(i, d, n + 1) /\ At(i, d, n + 1) \in own

LegalSquares(own, opp) ==
    {i \in Bits \ (own \cup opp) : \E d \in Steps : Bracketed(i, d, own, opp)}

FlipsIn(i, d, own, opp) == IF Bracketed(i, d, own, opp) THEN RunOf(i, d, opp) ELSE {}

Own == get_bitboard(white, black, color)

Opp == get_bitboard(white, black, invert(color))

ResOwn == get_bitboard(res.white, res.black, color)

ResOpp == get_bitboard(res.white, res.black, invert(color))

Disjoint == white \cap black = {}

SingleBit == Cardinality(mv) = 1

TheBit == CHOOSE i \in mv : TRUE

\* the last call was make_move on a disjoint board with a single bit of gen_moves
LegalCall ==
    /\ op = "make_move"
    /\ Disjoint
    /\ SingleBit
    /\ mv \subseteq gen_moves(white, black, color)

\* C1: on a disjoint board gen_moves returns exactly the empty squares next to
\* which, in one of the 8 directions, a run of one or more opponent disks is
\* followed on the board by a disk of the mover
C1_GenMovesIsLegalSquares ==
    (op = "gen_moves" /\ Disjoint) => moves = LegalSquares(Own, Opp)

\* gen_moves found a move across a run of six opponent disks
C1_Witness ==
    /\ op = "gen_moves"
    /\ Disjoint
    /\ \E i \in moves : \E d \in Steps : Bracketed(i, d, Own, Opp) /\ RunLen(i, d, Opp) = 6

\* C2: make_move of a legal single bit adds the bit to the mover, moves the
\* run of each direction from the opponent to the mover exactly when a disk
\* of the mover follows it on the board, keeps every other square, and
\* returns the masks in (white, black) order
C2_MakeMoveFlipsBracketedRuns ==
    LegalCall =>
        LET flips == [k \in 1..8 |-> FlipsIn(TheBit, DirStep[k], Own, Opp)]
            all == UNION {flips[k] : k \in 1..8}
        IN  /\ res.flips = flips
            /\ res.white = (IF color = "White" THEN (white \cup mv) \cup all ELSE white \ all)
            /\ res.black = (IF color = "Black" THEN (black \cup mv) \cup all ELSE black \ all)

\* a legal move of Black flipped runs in two directions
C2_Witness ==
    /\ LegalCall
    /\ color = "Black"
    /\ Cardinality({k \in 1..8 : res.flips[k] # {}}) >= 2

\* C5: make_move of a legal single bit raises the number of occupied squares
\* by exactly one
C5_OccupancyPlusOne ==
    LegalCall =>
        Cardinality(res.white \cup res.black) = Cardinality(white \cup black) + 1

\* a legal move flipped three disks or more
C5_Witness ==
    /\ LegalCall
    /\ Cardinality(ResOwn) >= Cardinality(Own) + 4

\* C7 as stated: make_move of a single bit that is not in gen_moves flips
\* nothing and only adds the bit to the mover
C7_IllegalMoveOnlyPlaces ==
    (op = "make_move" /\ Disjoint /\ SingleBit
        /\ ~(mv \subseteq gen_moves(white, black, color)))
    => /\ \A k \in 1..8 : res.flips[k] = {}
       /\ ResOwn = Own \cup mv
       /\ ResOpp = Opp

\* C7 amended: make_move of a single bit on an empty square that is not in
\* gen_moves flips nothing and only adds the bit to the mover
C7_IllegalMoveOnEmptyOnlyPlaces ==
    (op = "make_move" /\ Disjoint /\ SingleBit
        /\ mv \cap (white \cup black) = {}
        /\ ~(mv \subseteq gen_moves(white, black, color)))
    => /\ \A k \in 1..8 : res.flips[k] = {}
       /\ ResOwn = Own \cup mv
       /\ ResOpp = Opp

\* an illegal move on an empty square next to an opponent run was only placed
C7_Witness ==
    /\ op = "make_move"
    /\ Disjoint
    /\ SingleBit
    /\ mv \cap (white \cup black) = {}
    /\ ~(mv \subseteq gen_moves(white, black, color))
    /\ \E d \in Steps : RunLen(TheBit, d, Opp) >= 2
    /\ ResOwn = Own \cup mv

\* the moves of gen_moves with the frontier of each direction extended until
\* no new bit appears
RECURSIVE frontier(_, _, _, _)
frontier(dir, opp, t, n) ==
    LET t2 == t \cup (opp \cap Shift(dir, t))
    IN  IF t2 = t \/ n >= 64 THEN t ELSE frontier(dir, opp, t2, n + 1)

gen_moves_fixpoint(w, b, playing) ==
    LET own == get_bitboard(w, b, playing)
        opp == get_bitboard(w, b, invert(playing))
        found == UNION {Shift(Dirs[k], frontier(Dirs[k], opp, opp \cap Shift(Dirs[k], own), 0))
                        : k \in 1..8}
    IN  found \cap BitNot(own \cup opp)

\* C8: the six unrolled steps of gen_moves give the same mask as extending
\* the frontier of each direction until no new bit appears
C8_UnrolledEqualsFixpoint ==
    op = "gen_moves" => moves = gen_moves_fixpoint(white, black, color)

\* gen_moves found a move at the end of a run that takes all six steps
C8_Witness ==
    /\ op = "gen_moves"
    /\ \E k \in 1..8 :
          LET t == frontier(Dirs[k], Opp, Opp \cap Shift(Dirs[k], Own), 0)
          IN  /\ Cardinality(t) = 6
              /\ Shift(Dirs[k], t) \cap moves # {}

\* C9: a single bit of gen_moves given to make_move flips a disk (the mover
\* gains two disks or more, the opponent loses one or more), and a single bit
\* on an empty square that is not in gen_moves flips nothing
C9_GenMovesAgreesWithMakeMove ==
    /\ LegalCall =>
          /\ Cardinality(ResOwn) >= Cardinality(Own) + 2
          /\ Cardinality(ResOpp) <= Cardinality(Opp) - 1
    /\ (op = "make_move" /\ Disjoint /\ SingleBit
          /\ mv \cap (white \cup black) = {}
          /\ ~(mv \subseteq gen_moves(white, black, color)))
       => /\ Cardinality(ResOwn) = Cardinality(Own) + 1
          /\ ResOpp = Opp

\* a legal move on a game board flipped exactly one disk
C9_Witness ==
    /\ LegalCall
    /\ <<white, black>> \in GameBoards
    /\ Cardinality(ResOwn) = Cardinality(Own) + 2
    /\ Cardinality(ResOpp) = Cardinality(Opp) - 1

\* C10: in make_move no loop begins more than 7 iterations, whatever the
\* board and the move argument
C10_LoopAtMostSeven ==
    op = "make_move" => iters <= 7

\* a loop of make_move took 7 iterations
C10_Witness ==
    /\ op = "make_move"
    /\ iters = 7

\* a loop took 7 iterations for a move argument of several bits
C10_WitnessSeveralBits ==
    /\ op = "make_move"
    /\ Cardinality(mv) > 1
    /\ iters = 7

(***************************************************************************)
(* Claims about the game played from Othello::new()                        *)
(***************************************************************************)
\* C3: in every position of a game from Othello::new() the white mask and
\* the black mask have no bit in common
C3_MasksDisjoint ==
    white \cap black = {}

\* a side passed after eight moves of the game
C3_Witness ==
    /\ op = "pass"
    /\ Cardinality(white \cup black) = 12
    /\ white \cap black = {}

PassNode ==
    /\ op = "perft"
    /\ ply > 0
    /\ gen_moves(white, black, color) = {}
    /\ gen_moves(white, black, invert(color)) # {}

\* C6 as stated: where the side to move has no move and the opponent has
\* one, perft equals the opponent's perft at the same remaining depth
C6_PassKeepsDepth ==
    PassNode => count = perft(white, black, invert(color), depth)

\* C6 amended: there perft equals the opponent's perft at the remaining
\* depth less one: 1 at depth 1, the number of the opponent's moves at depth 2
C6_PassTakesOnePly ==
    PassNode =>
        /\ count = perft(white, black, invert(color), depth - 1)
        /\ depth = 1 => count = 1
        /\ depth = 2 => count = Cardinality(gen_moves(white, black, invert(color)))

\* perft at depth 2 where the side to move passes and the other has two
\* moves or more
C6_Witness ==
    /\ PassNode
    /\ depth = 2
    /\ count >= 2

====
